---- MODULE Spec2Model ----
(***************************************************************************)
(* Model of the Neopixel driver of src/neopixel.py: the pixel buffer, the  *)
(* channel packing of set_pixel, the range / gradient / rotation helpers,  *)
(* show(), and the PIO bit loop that serialises the words on the line.     *)
(***************************************************************************)
EXTENDS Integers, Sequences, FiniteSets, TLC

(***************************************************************************)
(* Bounds of the model.                                                    *)
(***************************************************************************)
MaxLeds == 2
MaxOffset == 4
PackLeds == 1
RotLeds == 3
GradLeds == 3
MaxGradientCalls == 2
MaxFifo == 2

(***************************************************************************)
(* Input samples.                                                          *)
(***************************************************************************)
Perms(S) ==
  {s \in [1..Cardinality(S) -> S] : \A a, b \in 1..Cardinality(S) : a # b => s[a] # s[b]}

RGBModes == Perms({"R", "G", "B"})

RGBWModes == Perms({"R", "G", "B", "W"})

AllModes == RGBModes \cup RGBWModes

Modes == {<<"G", "R", "B">>, <<"R", "G", "B", "W">>}

Delays == {0, 1}

Colors == {<<255, 0, 0>>, <<128, 5, 64, 3>>}

PackColors ==
  {<<255, 255, 255>>, <<1, 2, 3>>, <<128, 5, 0>>, <<17, 34, 51, 68>>,
   <<255, 255, 255, 255>>, <<0, 0, 0, 255>>}

\* Gradient end colours: two colours with the same number of channels.
ColorPairs ==
  {<<<<255, 0, 0>>, <<0, 255, 64>>>>,
   <<<<128, 5, 0>>, <<128, 5, 0>>>>,
   <<<<1, 2, 3, 4>>, <<9, 8, 7, 6>>>>}

\* Colour lists of the documented lengths 2 and 4.
ColorLists ==
  {<<<<255, 0, 0>>, <<0, 255, 64>>>>,
   <<<<1, 2, 3, 4>>, <<9, 8, 7, 6>>>>,
   <<<<255, 0, 0>>, <<255, 255, 0>>, <<0, 255, 0>>, <<0, 0, 255>>>>}

BrightnessArgs == {0, 50, 300}

PackBrightnessArgs == {0, 50, 128, 300}

(***************************************************************************)
(* Python arithmetic used by the driver.                                   *)
(***************************************************************************)
Min(a, b) == IF a < b THEN a ELSE b

Max(a, b) == IF a > b THEN a ELSE b

\* round(num / den) for den > 0: Python rounds halves to the even neighbour.
PyRound(num, den) ==
  LET q == num \div den
      r == num - q * den
  IN  IF 2 * r < den THEN q
      ELSE IF 2 * r > den THEN q + 1
      ELSE IF q % 2 = 0 THEN q ELSE q + 1

RECURSIVE BitOr(_, _)
BitOr(a, b) ==
  IF a = 0 THEN b
  ELSE IF b = 0 THEN a
  ELSE (IF a % 2 = 1 \/ b % 2 = 1 THEN 1 ELSE 0) + 2 * BitOr(a \div 2, b \div 2)

RECURSIVE BitXor(_, _)
BitXor(a, b) ==
  IF a = 0 THEN b
  ELSE IF b = 0 THEN a
  ELSE (IF a % 2 # b % 2 THEN 1 ELSE 0) + 2 * BitXor(a \div 2, b \div 2)

\* A Python int >= 0 as its base-256 digits, least significant first.
RECURSIVE Digits(_)
Digits(v) == IF v = 0 THEN <<>> ELSE <<v % 256>> \o Digits(v \div 256)

DigitAt(ds, k) == IF k <= Len(ds) THEN ds[k] ELSE 0

\* ds << s for a shift s that is a whole number of bytes.
Shl(ds, s) == [k \in 1..(s \div 8) |-> 0] \o ds

OrDigits(a, b) ==
  LET n == Max(Len(a), Len(b))
  IN  SubSeq([k \in 1..n |-> BitOr(DigitAt(a, k), DigitAt(b, k))], 1, n)

\* The value as an unsigned 32-bit array item, most significant byte first;
\* <<>> when it does not fit.
ToWord(ds) ==
  IF \E k \in 5..Len(ds) : ds[k] # 0 THEN <<>>
  ELSE <<DigitAt(ds, 4), DigitAt(ds, 3), DigitAt(ds, 2), DigitAt(ds, 1)>>

ZeroWord == <<0, 0, 0, 0>>

\* str.index: 0-based position of ch in the mode string.
ModeIndex(m, ch) == (CHOOSE p \in 1..Len(m) : m[p] = ch) - 1

HasW(m) == \E p \in 1..Len(m) : m[p] = "W"

\* Normalised slot of a Python subscript, or -1 when it raises IndexError.
PyIndex(idx, n) ==
  IF idx >= 0 /\ idx < n THEN idx
  ELSE IF idx < 0 /\ idx + n >= 0 THEN idx + n
  ELSE -1

\* Bound of a Python slice: negative bounds count from the end, then clamp.
PyClamp(k, n) == IF k < 0 THEN Max(k + n, 0) ELSE Min(k, n)

PySliceFrom(s, k) == SubSeq(s, PyClamp(k, Len(s)) + 1, Len(s))

PySliceTo(s, k) == SubSeq(s, 1, PyClamp(k, Len(s)))

VARIABLES pc, mode, shift, num_leds, delay, brightnessvalue, pixels,
          tx, idx, op, err, calls, sm

vars == <<pc, mode, shift, num_leds, delay, brightnessvalue, pixels,
          tx, idx, op, err, calls, sm>>

\* What the driver does to the hardware: sm.put(word, cut) and time.sleep(d).
PutEvent(w, cut) == [ev |-> "put", val |-> w, arg |-> cut]

SleepEvent(d) == [ev |-> "sleep", val |-> d, arg |-> 0]

(***************************************************************************)
(* The PIO programs ws2812 and sk6812 and the state machine running them.  *)
(***************************************************************************)
T1 == 2
T2 == 5
T3 == 3

\* The bit loop with the delays of the first two instructions exchanged.
BitLoopExchanged ==
  <<[instr |-> "out", side |-> 0, delay |-> T1 - 1],
    [instr |-> "jmp_not_x", side |-> 1, delay |-> T3 - 1],
    [instr |-> "jmp", side |-> 1, delay |-> T2 - 1],
    [instr |-> "nop", side |-> 0, delay |-> T2 - 1]>>

\* The four instructions of the bit loop with their side-set and delay.
BitLoop ==
  <<[instr |-> "out", side |-> 0, delay |-> T3 - 1],
    [instr |-> "jmp_not_x", side |-> 1, delay |-> T1 - 1],
    [instr |-> "jmp", side |-> 1, delay |-> T2 - 1],
    [instr |-> "nop", side |-> 0, delay |-> T2 - 1]>>

ws2812 == [program |-> BitLoop, pull_thresh |-> 24]

sk6812 == [program |-> BitLoop, pull_thresh |-> 32]

NoStateMachine ==
  [program |-> <<>>, pull_thresh |-> 0, pc |-> 0, delay |-> 0, line |-> 0,
   osr |-> <<>>, count |-> 0, x |-> 0, fifo |-> <<>>, word |-> <<>>,
   wave |-> <<>>, sent |-> <<>>, cur |-> <<>>, puts |-> 0]

\* rp2.StateMachine(..., sideset_init=OUT_LOW, autopull=True): the program
\* at its wrap target, the line low, the output shift register empty.
\* wave records the line level of every cycle of the bit in progress, sent
\* the bits shifted out of the word cur so far.
StateMachine(prog) ==
  [program |-> prog.program, pull_thresh |-> prog.pull_thresh, pc |-> 1,
   delay |-> 0, line |-> 0, osr |-> [k \in 1..32 |-> 0], count |-> 32, x |-> 0,
   fifo |-> <<>>, word |-> <<>>, wave |-> <<>>, sent |-> <<>>, cur |-> <<>>,
   puts |-> 0]

(***************************************************************************)
(* Neopixel.__init__                                                       *)
(***************************************************************************)
\* The shift without the index flip.
ShiftOfUnflipped(m, ch) == IF ch = "W" /\ ~HasW(m) THEN 0 ELSE ModeIndex(m, ch) * 8

ShiftOf(m, ch) ==
  IF HasW(m) THEN BitXor(ModeIndex(m, ch), 3) * 8
  ELSE IF ch = "W" THEN 0
  ELSE (BitXor(ModeIndex(m, ch), 3) - 1) * 8

ShiftTable(m) == [ch \in {"R", "G", "B", "W"} |-> ShiftOf(m, ch)]

Init ==
  /\ pc = "new"
  /\ mode = <<>>
  /\ shift = <<>>
  /\ num_leds = 0
  /\ delay = 0
  /\ brightnessvalue = 0
  /\ pixels = <<>>
  /\ tx = <<>>
  /\ idx = 0
  /\ op = "none"
  /\ err = "none"
  /\ calls = 0
  /\ sm = NoStateMachine

Neopixel_init(n, m, d) ==
  /\ pc = "new"
  /\ pixels' = [k \in 1..Max(n, 0) |-> ZeroWord]
  /\ mode' = m
  /\ shift' = ShiftTable(m)
  /\ num_leds' = n
  /\ delay' = d
  /\ brightnessvalue' = 255
  /\ pc' = "idle"
  /\ op' = "__init__"
  /\ sm' = StateMachine(IF HasW(m) THEN sk6812 ELSE ws2812)
  /\ UNCHANGED <<tx, idx, err, calls>>

(***************************************************************************)
(* Neopixel.brightness                                                     *)
(***************************************************************************)
ClampBrightness(b) ==
  LET lo == IF b < 1 THEN 1 ELSE b
  IN  IF lo > 255 THEN 255 ELSE lo

\* A brightness that rescales the words already stored.
brightness_live(b) ==
  /\ pc = "idle"
  /\ brightnessvalue' = ClampBrightness(b)
  /\ pixels' = [k \in 1..Len(pixels) |->
                  [l \in 1..4 |-> PyRound(pixels[k][l] * ClampBrightness(b), 255)]]
  /\ op' = "brightness"
  /\ err' = "none"
  /\ tx' = <<>>
  /\ UNCHANGED <<pc, mode, shift, num_leds, delay, idx, calls, sm>>

brightness(b) ==
  /\ pc = "idle"
  /\ brightnessvalue' = ClampBrightness(b)
  /\ op' = "brightness"
  /\ err' = "none"
  /\ tx' = <<>>
  /\ UNCHANGED <<pc, mode, shift, num_leds, delay, pixels, idx, calls, sm>>

\* brightness() without an argument only returns the current value.
brightness_get ==
  /\ pc = "idle"
  /\ op' = "brightness_get"
  /\ err' = "none"
  /\ tx' = <<>>
  /\ UNCHANGED <<pc, mode, shift, num_leds, delay, brightnessvalue, pixels, idx, calls, sm>>

(***************************************************************************)
(* Neopixel.set_pixel                                                      *)
(***************************************************************************)
Scale(v, b) == PyRound(v * b, 255)

PackWord(rgb_w, b, m, sh) ==
  LET red == Scale(rgb_w[1], b)
      green == Scale(rgb_w[2], b)
      blue == Scale(rgb_w[3], b)
      white == IF Len(rgb_w) = 4 /\ HasW(m) THEN Scale(rgb_w[4], b) ELSE 0
  IN  IF red < 0 \/ green < 0 \/ blue < 0 \/ white < 0 THEN <<>>
      ELSE ToWord(OrDigits(OrDigits(OrDigits(Shl(Digits(white), sh["W"]),
                                             Shl(Digits(blue), sh["B"])),
                                    Shl(Digits(red), sh["R"])),
                           Shl(Digits(green), sh["G"])))

\* Result of one set_pixel on the buffer px: the buffer, the exception and
\* the slots assigned.
SetPixelOn(r, pixel_num, rgb_w) ==
  LET w == PackWord(rgb_w, brightnessvalue, mode, shift)
      slot == PyIndex(pixel_num, Len(r.pixels))
  IN  IF r.err # "none" THEN r
      ELSE IF slot = -1 THEN [r EXCEPT !.err = "IndexError"]
      ELSE IF w = <<>> THEN [r EXCEPT !.err = "OverflowError"]
      ELSE [r EXCEPT !.pixels = [r.pixels EXCEPT ![slot + 1] = w],
                     !.written = Append(r.written, slot)]

Start(px) == [pixels |-> px, err |-> "none", written |-> <<>>]

Finish(r, name) ==
  /\ pc = "idle"
  /\ pixels' = r.pixels
  /\ err' = r.err
  /\ op' = name
  /\ UNCHANGED <<pc, mode, shift, num_leds, delay, brightnessvalue, idx, sm>>

set_pixel_fn(px, pixel_num, rgb_w) == SetPixelOn(Start(px), pixel_num, rgb_w)

set_pixel(pixel_num, rgb_w) ==
  /\ Finish(set_pixel_fn(pixels, pixel_num, rgb_w), "set_pixel")
  /\ tx' = <<>>
  /\ UNCHANGED <<calls, sm>>

(***************************************************************************)
(* Neopixel.set_pixel_line and Neopixel.fill                               *)
(***************************************************************************)
\* for i in range(first, stop): set_pixel(i, rgb_w), ended by an exception.
RECURSIVE LineLoop(_, _, _, _)
LineLoop(r, i, stop, rgb_w) ==
  IF i >= stop \/ r.err # "none" THEN r
  ELSE LineLoop(SetPixelOn(r, i, rgb_w), i + 1, stop, rgb_w)

set_pixel_line_fn(px, pixel1, pixel2, rgb_w) ==
  LineLoop(Start(px), pixel1, pixel2 + 1, rgb_w)

set_pixel_line(pixel1, pixel2, rgb_w) ==
  /\ Finish(set_pixel_line_fn(pixels, pixel1, pixel2, rgb_w), "set_pixel_line")
  /\ tx' = <<>>
  /\ UNCHANGED <<calls, sm>>

fill_fn(px, rgb_w) == LineLoop(Start(px), 0, num_leds, rgb_w)

fill(rgb_w) ==
  /\ Finish(fill_fn(pixels, rgb_w), "fill")
  /\ tx' = IF fill_fn(pixels, rgb_w).err = "none" THEN <<SleepEvent(delay)>> ELSE <<>>
  /\ UNCHANGED <<calls, sm>>

(***************************************************************************)
(* Neopixel.rotate_left and Neopixel.rotate_right                          *)
(***************************************************************************)
rotate_left_fn(px, num_of_pixels) ==
  PySliceFrom(px, num_of_pixels) \o PySliceTo(px, num_of_pixels)

\* The right rotation without the change of sign.
rotate_right_unnegated(px, num_of_pixels) ==
  PySliceFrom(px, num_of_pixels) \o PySliceTo(px, num_of_pixels)

rotate_right_fn(px, num_of_pixels) ==
  LET k == -1 * num_of_pixels
  IN  PySliceFrom(px, k) \o PySliceTo(px, k)

Rotated(px, name) ==
  /\ pc = "idle"
  /\ pixels' = px
  /\ op' = name
  /\ err' = "none"
  /\ tx' = <<>>
  /\ UNCHANGED <<pc, mode, shift, num_leds, delay, brightnessvalue, idx, calls, sm>>

rotate_left(num_of_pixels) ==
  Rotated(rotate_left_fn(pixels, num_of_pixels), "rotate_left")

\* num_of_pixels == None stands for 1.
rotate_left_none == Rotated(rotate_left_fn(pixels, 1), "rotate_left")

rotate_right(num_of_pixels) ==
  Rotated(rotate_right_fn(pixels, num_of_pixels), "rotate_right")

rotate_right_none == Rotated(rotate_right_fn(pixels, 1), "rotate_right")

(***************************************************************************)
(* Neopixel.set_pixel_line_gradient                                        *)
(***************************************************************************)
\* round((b - a) * fraction + a) with fraction = j / d, as exact arithmetic.
Interp(a, b, j, d) ==
  IF d > 0 THEN PyRound((b - a) * j + a * d, d)
  ELSE PyRound(-((b - a) * j + a * d), -d)

\* The colour the gradient code hands to set_pixel: (r, g, b, w) when the
\* first colour has four channels and the mode has W, else (r, g, b).
InterpColor(first, second, j, d) ==
  IF Len(first) = 4 /\ HasW(mode)
  THEN [ch \in 1..4 |-> Interp(first[ch], second[ch], j, d)]
  ELSE [ch \in 1..3 |-> Interp(first[ch], second[ch], j, d)]

RECURSIVE GradientLoop(_, _, _, _, _, _)
GradientLoop(r, i, left_pixel, right_pixel, left_rgb_w, right_rgb_w) ==
  IF i >= right_pixel - left_pixel + 1 \/ r.err # "none" THEN r
  ELSE GradientLoop(
         SetPixelOn(r, left_pixel + i,
                    InterpColor(left_rgb_w, right_rgb_w, i, right_pixel - left_pixel)),
         i + 1, left_pixel, right_pixel, left_rgb_w, right_rgb_w)

set_pixel_line_gradient_fn(px, pixel1, pixel2, left_rgb_w, right_rgb_w) ==
  IF pixel2 - pixel1 = 0 THEN Start(px)
  ELSE GradientLoop(Start(px), 0, Min(pixel1, pixel2), Max(pixel1, pixel2),
                    left_rgb_w, right_rgb_w)

set_pixel_line_gradient(pixel1, pixel2, left_rgb_w, right_rgb_w) ==
  /\ calls < MaxGradientCalls
  /\ calls' = calls + 1
  /\ Finish(set_pixel_line_gradient_fn(pixels, pixel1, pixel2, left_rgb_w, right_rgb_w),
            "set_pixel_line_gradient")
  /\ tx' = <<>>

(***************************************************************************)
(* Neopixel.segment_gradient                                               *)
(***************************************************************************)
\* One pass of the body of the inner loop (lines 157-191).  st carries the
\* loop variables next to the buffer; brk is set by the break statement.
SegmentBody(st, i, j, color_list, pixel2, step, rainbow) ==
  LET start1 == i * step
      first_rgb_w == color_list[i + 1]
      end0 == start1 + step
      last == end0 >= pixel2
      end1 == IF last THEN pixel2 ELSE end0
  IN  IF ~last /\ i + 2 > Len(color_list) THEN [st EXCEPT !.err = "IndexError"]
      ELSE IF end1 - start1 = 0 THEN [st EXCEPT !.err = "ZeroDivisionError"]
      ELSE
        LET second_rgb_w == IF last THEN color_list[1] ELSE color_list[i + 2]
            target == IF ~st.reverse THEN start1 + j ELSE end1 - j
            r == SetPixelOn(st, target,
                            InterpColor(first_rgb_w, second_rgb_w, j, end1 - start1))
        IN  IF r.err # "none" THEN r
            ELSE IF rainbow
            THEN [r EXCEPT !.start_pixel = start1, !.end_pixel = end1,
                           !.brk = (end1 + j) > (pixel2 + 2)]
            ELSE [r EXCEPT !.start_pixel = end1, !.end_pixel = pixel2,
                           !.reverse = TRUE]

\* for j in range(count): body, left by break or by an exception.
RECURSIVE SegmentInner(_, _, _, _, _, _, _, _)
SegmentInner(st, i, j, count, color_list, pixel2, step, rainbow) ==
  IF j >= count \/ st.err # "none" \/ st.brk THEN st
  ELSE SegmentInner(SegmentBody(st, i, j, color_list, pixel2, step, rainbow),
                    i, j + 1, count, color_list, pixel2, step, rainbow)

\* for i, color in enumerate(color_list): the range of the inner loop is
\* taken from start_pixel and end_pixel as the previous segment left them.
RECURSIVE SegmentOuter(_, _, _, _, _, _)
SegmentOuter(st, i, color_list, pixel2, step, rainbow) ==
  IF i >= Len(color_list) \/ st.err # "none" THEN st
  ELSE SegmentOuter(
         SegmentInner([st EXCEPT !.brk = FALSE], i, 0,
                      st.end_pixel - st.start_pixel + 1,
                      color_list, pixel2, step, rainbow),
         i + 1, color_list, pixel2, step, rainbow)

segment_gradient_fn(px, color_list, pixel1, pixel2, reverse, rainbow) ==
  LET divs == Len(color_list)
      step == (pixel2 + 1) \div divs
      st0 == [pixels |-> px, err |-> "none", written |-> <<>>,
              start_pixel |-> pixel1, end_pixel |-> step,
              reverse |-> IF divs = 4 THEN FALSE ELSE reverse, brk |-> FALSE]
  IN  IF pixel2 - pixel1 = 0 THEN st0
      ELSE SegmentOuter(st0, 0, color_list, pixel2, step,
                        IF divs = 4 THEN TRUE ELSE rainbow)

segment_gradient(color_list, pixel1, pixel2, reverse, rainbow) ==
  /\ calls < MaxGradientCalls
  /\ calls' = calls + 1
  /\ Finish(segment_gradient_fn(pixels, color_list, pixel1, pixel2, reverse, rainbow),
            "segment_gradient")
  /\ tx' = <<>>

(***************************************************************************)
(* Neopixel.show                                                           *)
(***************************************************************************)
Cut(m) == IF HasW(m) THEN 0 ELSE 8

show_begin ==
  /\ pc = "idle"
  /\ pc' = "show"
  /\ idx' = 0
  /\ tx' = <<>>
  /\ op' = "show"
  /\ err' = "none"
  /\ UNCHANGED <<mode, shift, num_leds, delay, brightnessvalue, pixels, calls, sm>>

\* The loop running from the last pixel down.
show_put_descending ==
  /\ pc = "show"
  /\ idx < num_leds
  /\ tx' = Append(tx, PutEvent(pixels[num_leds - idx], Cut(mode)))
  /\ idx' = idx + 1
  /\ UNCHANGED <<pc, mode, shift, num_leds, delay, brightnessvalue, pixels, op, err, calls, sm>>

show_put ==
  /\ pc = "show"
  /\ idx < num_leds
  /\ tx' = Append(tx, PutEvent(pixels[idx + 1], Cut(mode)))
  /\ idx' = idx + 1
  /\ UNCHANGED <<pc, mode, shift, num_leds, delay, brightnessvalue, pixels, op, err, calls, sm>>

show_sleep ==
  /\ pc = "show"
  /\ ~(idx < num_leds)
  /\ tx' = Append(tx, SleepEvent(delay))
  /\ pc' = "idle"
  /\ UNCHANGED <<mode, shift, num_leds, delay, brightnessvalue, pixels, idx, op, err, calls, sm>>

Next ==
  \/ \E n \in -1..MaxLeds, m \in Modes, d \in Delays : Neopixel_init(n, m, d)
  \/ \E b \in BrightnessArgs : brightness(b)
  \/ brightness_get
  \/ \E p \in -1..MaxLeds, c \in Colors : set_pixel(p, c)
  \/ \E p1, p2 \in 0..MaxLeds, c \in Colors : set_pixel_line(p1, p2, c)
  \/ \E c \in Colors : fill(c)
  \/ \E k \in -1..MaxLeds : rotate_left(k)
  \/ rotate_left_none
  \/ \E k \in -1..MaxLeds : rotate_right(k)
  \/ rotate_right_none
  \/ show_begin
  \/ show_put
  \/ show_sleep

Spec == Init /\ [][Next]_vars

(***************************************************************************)
(* Packing alone: every channel order, more colours and brightness values. *)
(***************************************************************************)
NextPack ==
  \/ \E m \in AllModes : Neopixel_init(PackLeds, m, 0)
  \/ \E b \in PackBrightnessArgs : brightness(b)
  \/ \E p \in 0..(PackLeds - 1), c \in PackColors : set_pixel(p, c)

SpecPack == Init /\ [][NextPack]_vars

(***************************************************************************)
(* Rotation of a strip of up to RotLeds pixels.                            *)
(***************************************************************************)
NextRotate ==
  \/ \E n \in 0..RotLeds, m \in Modes : Neopixel_init(n, m, 0)
  \/ \E p \in 0..(RotLeds - 1), c \in Colors : set_pixel(p, c)
  \/ \E k \in -MaxOffset..MaxOffset : rotate_left(k)
  \/ rotate_left_none
  \/ \E k \in -MaxOffset..MaxOffset : rotate_right(k)
  \/ rotate_right_none

SpecRotate == Init /\ [][NextRotate]_vars

(***************************************************************************)
(* The gradient operations on a strip of GradLeds pixels.                  *)
(***************************************************************************)
NextGradient ==
  \/ \E n \in 1..GradLeds, m \in Modes : Neopixel_init(n, m, 0)
  \/ \E p1, p2 \in -1..GradLeds, cs \in ColorPairs :
       set_pixel_line_gradient(p1, p2, cs[1], cs[2])
  \/ \E cl \in ColorLists, p1, p2 \in 0..(GradLeds - 1), rv, rb \in BOOLEAN :
       segment_gradient(cl, p1, p2, rv, rb)

SpecGradient == Init /\ [][NextGradient]_vars

(***************************************************************************)
(* The state machine at work: sm.put on the processor side, one action per *)
(* clock cycle on the PIO side.                                            *)
(***************************************************************************)
\* The 32 bits of a word, most significant first.
RECURSIVE ByteBits(_, _)
ByteBits(b, n) == IF n = 0 THEN <<>> ELSE ByteBits(b \div 2, n - 1) \o <<b % 2>>

WordBits(w) == ByteBits(w[1], 8) \o ByteBits(w[2], 8) \o ByteBits(w[3], 8) \o ByteBits(w[4], 8)

\* The word sm.put(value, shift) writes to the TX FIFO: value << shift, cut
\* to 32 bits, for a shift of a whole number of bytes.
PutWord(w, cut) == [k \in 1..4 |-> IF k + cut \div 8 <= 4 THEN w[k + cut \div 8] ELSE 0]

sm_put(w, cut) ==
  /\ pc = "idle"
  /\ sm.puts < MaxFifo
  /\ sm' = [sm EXCEPT !.fifo = Append(@, PutWord(w, cut)), !.puts = @ + 1]
  /\ UNCHANGED <<pc, mode, shift, num_leds, delay, brightnessvalue, pixels,
                 tx, idx, op, err, calls>>

PioStep(next) ==
  /\ pc = "idle"
  /\ sm' = next
  /\ UNCHANGED <<pc, mode, shift, num_leds, delay, brightnessvalue, pixels,
                 tx, idx, op, err, calls>>

Ready(k) == sm.pc = k /\ sm.delay = 0

\* out shifts to the left: the bit that leaves the register is its top bit.
ShiftOut(osr) == [bit |-> Head(osr), osr |-> Tail(osr) \o <<0>>]

\* Autopull: an empty shift register is refilled from the TX FIFO.
Autopull(m) ==
  IF m.count >= m.pull_thresh /\ m.fifo # <<>>
  THEN [m EXCEPT !.osr = WordBits(Head(m.fifo)), !.word = Head(m.fifo),
                 !.count = 0, !.fifo = Tail(m.fifo)]
  ELSE m

\* The instruction at k starts: its side-set value drives the line for this
\* cycle and for its delay cycles.
Issue(m, k, target) ==
  [m EXCEPT !.pc = target, !.line = m.program[k].side,
            !.delay = m.program[k].delay,
            !.wave = Append(m.wave, m.program[k].side)]

\* out(x, 1) with an empty shift register stalls with its side-set applied.
pio_stall ==
  /\ Ready(1)
  /\ sm.count >= sm.pull_thresh
  /\ PioStep(Autopull([sm EXCEPT !.line = sm.program[1].side]))

pio_out ==
  /\ Ready(1)
  /\ sm.count < sm.pull_thresh
  /\ PioStep(Autopull([Issue([sm EXCEPT !.wave = <<>>], 1, 2) EXCEPT
                         !.x = ShiftOut(sm.osr).bit,
                         !.osr = ShiftOut(sm.osr).osr,
                         !.count = sm.count + 1,
                         !.sent = IF sm.count = 0 THEN <<ShiftOut(sm.osr).bit>>
                                  ELSE Append(sm.sent, ShiftOut(sm.osr).bit),
                         !.cur = sm.word]))

pio_jmp_not_x ==
  /\ Ready(2)
  /\ PioStep(Issue(sm, 2, IF sm.x = 0 THEN 4 ELSE 3))

pio_jmp_bitloop ==
  /\ Ready(3)
  /\ PioStep(Issue(sm, 3, 1))

pio_nop ==
  /\ Ready(4)
  /\ PioStep(Issue(sm, 4, 1))

pio_delay ==
  /\ sm.delay > 0
  /\ PioStep([sm EXCEPT !.delay = @ - 1, !.wave = Append(@, sm.line)])

NextPIO ==
  \/ \E m \in Modes : Neopixel_init(1, m, 0)
  \/ \E c \in Colors : sm_put(PackWord(c, brightnessvalue, mode, shift), Cut(mode))
  \/ pio_stall
  \/ pio_out
  \/ pio_jmp_not_x
  \/ pio_jmp_bitloop
  \/ pio_nop
  \/ pio_delay

SpecPIO == Init /\ [][NextPIO]_vars

(***************************************************************************)
(* Properties.                                                             *)
(***************************************************************************)
Abs(a) == IF a < 0 THEN -a ELSE a

\* q is the integer nearest to v * b / 255 (255 is odd: there are no ties).
IsRounded(q, v, b) == 2 * Abs(255 * q - v * b) < 255

\* The value a colour carries for a channel; a missing white is 0.
Channel(c, ch) ==
  IF ch = "R" THEN c[1]
  ELSE IF ch = "G" THEN c[2]
  ELSE IF ch = "B" THEN c[3]
  ELSE IF Len(c) = 4 THEN c[4] ELSE 0

\* The p-th most significant byte of the 24-bit or 32-bit part of a word.
Lane(w, p, width) == w[p + (4 - width)]

\* C1: after set_pixel(i, c) on any valid index, the lane at position p of
\* the mode string holds round(c[mode[p]] * brightness / 255), for every
\* channel order, and an RGB word leaves the top byte zero.  The scaling is
\* checked for every channel value and every brightness of 1..255, the
\* packing for every brightness of 1..255 in every channel order.
C1_PackRoundTrip ==
  /\ pc = "new" =>
       \A v \in 0..255, b \in 1..255 :
         Scale(v, b) \in 0..255 /\ IsRounded(Scale(v, b), v, b)
  /\ op = "__init__" =>
       \A b \in 1..255, c \in PackColors :
         \A p \in 1..Len(mode) :
           IsRounded(Lane(PackWord(c, b, mode, shift), p, Len(mode)),
                     Channel(c, mode[p]), b)
  /\ pc = "idle" =>
       \A i \in 0..(num_leds - 1), c \in PackColors :
         LET r == set_pixel_fn(pixels, i, c)
             w == r.pixels[i + 1]
         IN  /\ r.err = "none"
             /\ \A p \in 1..Len(mode) :
                  IsRounded(Lane(w, p, Len(mode)), Channel(c, mode[p]), brightnessvalue)
             /\ Len(mode) = 3 => w[1] = 0
             /\ \A k \in 1..Len(pixels) : k # i + 1 => r.pixels[k] = pixels[k]

C1_Witness ==
  /\ op = "set_pixel"
  /\ mode = <<"G", "W", "R", "B">>
  /\ brightnessvalue = 50
  /\ pixels[1] = <<7, 13, 3, 10>>

\* C2: show() hands over pixels[0..num_leds-1] in ascending order, each
\* once, and sleeps for the delay only after the last word, also for delay 0.
C2_ShowOrder ==
  op = "show" =>
    /\ pc = "show" =>
         /\ idx \in 0..Max(num_leds, 0)
         /\ tx = [k \in 1..idx |-> PutEvent(pixels[k], Cut(mode))]
    /\ pc = "idle" =>
         tx = [k \in 1..Max(num_leds, 0) |-> PutEvent(pixels[k], Cut(mode))]
              \o <<SleepEvent(delay)>>

C2_Witness ==
  /\ op = "show"
  /\ pc = "idle"
  /\ num_leds = 2
  /\ delay = 0
  /\ pixels[1] # pixels[2]
  /\ Len(tx) = 3

\* C3: brightness() and show() leave every stored word as it is, and a
\* set_pixel changes one word only, to a word scaled by the brightness in
\* force at that call.
C3_BrightnessAtSetTime ==
  [][/\ op' \in {"brightness", "brightness_get", "show"} => pixels' = pixels
     /\ (op' = "set_pixel" /\ err' = "none" /\ pixels' # pixels) =>
          \E i \in 1..Len(pixels), c \in Colors :
            /\ \A k \in 1..Len(pixels) : k # i => pixels'[k] = pixels[k]
            /\ \A p \in 1..Len(mode) :
                 IsRounded(Lane(pixels'[i], p, Len(mode)), Channel(c, mode[p]),
                           brightnessvalue)]_vars

\* A word set at brightness 255 is transmitted unscaled after brightness(50).
C3_Witness ==
  /\ op = "show"
  /\ pc = "idle"
  /\ mode = <<"G", "R", "B">>
  /\ brightnessvalue = 50
  /\ Len(tx) > 1
  /\ tx[1].val = <<0, 0, 255, 0>>

\* C4: rotate_left(k) then rotate_right(k) gives back the same words at the
\* same indices, for every 0 <= k <= num_leds.
C4_RotateRoundTrip ==
  pc = "idle" =>
    \A k \in 0..num_leds :
      /\ Len(rotate_left_fn(pixels, k)) = num_leds
      /\ rotate_right_fn(rotate_left_fn(pixels, k), k) = pixels

C4_Witness ==
  /\ op = "rotate_right"
  /\ num_leds = 3
  /\ pixels[1] # pixels[2]
  /\ pixels[2] # pixels[3]
  /\ pixels[1] # pixels[3]

Range(seq) == {seq[k] : k \in 1..Len(seq)}

InRange(i) == i >= 0 /\ i < num_leds

\* C5: set_pixel_line(first, last, color) with both endpoints in range sets
\* exactly the indices min(first, last)..max(first, last) to the packed
\* colour, whichever endpoint is the larger.
C5_LineEitherOrder ==
  pc = "idle" =>
    \A first, last \in 0..(num_leds - 1), c \in Colors :
      LET r == set_pixel_line_fn(pixels, first, last, c)
      IN  /\ r.err = "none"
          /\ Range(r.written) = Min(first, last)..Max(first, last)
          /\ \A k \in 0..(num_leds - 1) :
               r.pixels[k + 1] =
                 IF k \in Min(first, last)..Max(first, last)
                 THEN PackWord(c, brightnessvalue, mode, shift)
                 ELSE pixels[k + 1]

\* C6: set_pixel, set_pixel_line and set_pixel_line_gradient called with an
\* index or endpoint outside [0, num_leds) end in an error and leave every
\* stored word as it was.
C6_FailFast ==
  (pc = "idle" /\ num_leds > 0) =>
    /\ \A i \in -1..(num_leds + 1), c \in Colors :
         ~InRange(i) =>
           LET r == set_pixel_fn(pixels, i, c)
           IN  r.err # "none" /\ r.pixels = pixels
    /\ \A first, last \in -1..(num_leds + 1), c \in Colors :
         (~InRange(first) \/ ~InRange(last)) =>
           LET r == set_pixel_line_fn(pixels, first, last, c)
           IN  r.err # "none" /\ r.pixels = pixels
    /\ \A first, last \in -1..(num_leds + 1), cs \in ColorPairs :
         (~InRange(first) \/ ~InRange(last)) =>
           LET r == set_pixel_line_gradient_fn(pixels, first, last, cs[1], cs[2])
           IN  r.err # "none" /\ r.pixels = pixels

\* C7: rotation offsets wrap modulo num_leds: rotate_left(k) moves the word
\* at index (i + k) mod num_leds to index i for every integer k, and
\* rotate_right(k) is rotate_right(k mod num_leds).
C7_RotateWraps ==
  (pc = "idle" /\ num_leds > 0) =>
    \A k \in -MaxOffset..MaxOffset :
      /\ rotate_left_fn(pixels, k) = rotate_left_fn(pixels, k % num_leds)
      /\ rotate_left_fn(pixels, k) =
           [i \in 1..num_leds |-> pixels[((i - 1 + k) % num_leds) + 1]]
      /\ rotate_right_fn(pixels, k) = rotate_right_fn(pixels, k % num_leds)

\* C8: a buffer is never constructed with num_leds <= 0.
C8_RejectsEmpty == pc # "new" => (num_leds > 0 /\ Len(pixels) > 0)

\* C10: segment_gradient with a colour list of length 2 or 4 on a span
\* 0 <= pixel1 < pixel2 < num_leds ends without error and writes every index
\* of pixel1..pixel2 and no other.
C10_SegmentCoversSpan ==
  pc = "idle" =>
    \A cl \in ColorLists, pixel1, pixel2 \in 0..(num_leds - 1), rv, rb \in BOOLEAN :
      pixel1 < pixel2 =>
        LET r == segment_gradient_fn(pixels, cl, pixel1, pixel2, rv, rb)
        IN  r.err = "none" /\ Range(r.written) = pixel1..pixel2

(***************************************************************************)
(* The bit symbols on the line.                                            *)
(***************************************************************************)
Level(v, n) == [k \in 1..n |-> v]

Count(seq, v) == Cardinality({k \in 1..Len(seq) : seq[k] = v})

\* A bit has been shifted out and all its cycles are over.
SymbolDone == pc = "idle" /\ sm.pc = 1 /\ sm.delay = 0 /\ sm.wave # <<>>

\* C9 as stated: a 0 bit holds the line high for T3 cycles and low for
\* T1 + T2, a 1 bit high for T3 + T1 cycles and low for T2.
C9_BitSymbol ==
  SymbolDone =>
    /\ Len(sm.wave) = T1 + T2 + T3
    /\ sm.x = 0 => Count(sm.wave, 1) = T3 /\ Count(sm.wave, 0) = T1 + T2
    /\ sm.x = 1 => Count(sm.wave, 1) = T3 + T1 /\ Count(sm.wave, 0) = T2

\* C9 as the code has it: every bit, most significant first, takes
\* T1 + T2 + T3 = 10 cycles: low for T3, high for T1, then high for T2 when
\* the bit is 1 and low for T2 when it is 0.
C9_BitSymbolOfCode ==
  /\ SymbolDone =>
       /\ Len(sm.wave) = T1 + T2 + T3
       /\ sm.wave = Level(0, T3) \o Level(1, T1) \o Level(sm.x, T2)
       /\ sm.x = sm.sent[Len(sm.sent)]
  /\ (pc = "idle" /\ sm.sent # <<>>) =>
       /\ Len(sm.sent) <= sm.pull_thresh
       /\ sm.sent = SubSeq(WordBits(sm.cur), 1, Len(sm.sent))
       /\ \E c \in Colors :
            sm.sent = SubSeq(WordBits(PackWord(c, brightnessvalue, mode, shift)),
                             33 - sm.pull_thresh, 32 - sm.pull_thresh + Len(sm.sent))

C9_Witness ==
  /\ SymbolDone
  /\ sm.pull_thresh = 24
  /\ Len(sm.sent) = 9
  /\ sm.x = 1
  /\ sm.cur = <<0, 255, 0, 0>>

====
